---- MODULE Spec2Model ----
(***************************************************************************)
(* cute-ledger: the in-memory transaction processor, the command           *)
(* validator and the account state machine.                                *)
(*                                                                         *)
(* Decimal amounts are modelled as integers (units of the smallest         *)
(* representable fraction); Option<Decimal> is the empty sequence for None *)
(* and a one-element sequence for Some(v).  A Result is a record with the  *)
(* field ok; errors carry the enum (type), the variant (kind) and the      *)
(* variant's fields (action, state).                                       *)
(***************************************************************************)
EXTENDS Integers, Sequences, FiniteSets, TLC

\* ---- bounds ----
MaxTx == 2
MaxClient == 2
MaxAmount == 2

TxIds == 1..MaxTx
ClientIds == 1..MaxClient
\* amounts a record may carry: negative, zero and positive decimals
AmountVals == (-1)..MaxAmount
None == <<>>
Some(v) == <<v>>
OptAmounts == {None} \cup {Some(v) : v \in AmountVals}
\* the amount field of a Dispute, Resolve or Chargeback record: absent,
\* negative or positive
ModifyAmounts == {None, Some(-1), Some(MaxAmount)}

TransactionKind == {"Deposit", "Withdrawal", "Dispute", "Resolve", "Chargeback"}

VARIABLES
  created_tx_list,   \* InMemoryTransactionProcessor.created_tx_list
  accounts,          \* InMemoryTransactionProcessor.accounts
  referenced,        \* history: client ids of every processed record
  located,           \* history: client ids of records that passed parse_command
  creator,           \* history: tx id -> client of the accepted creation record
  refused,           \* history: tx ids of rejected Deposit/Withdrawal records
  charged,           \* history: tx ids of accepted Chargeback records
  frozen,            \* history: clients of accepted Chargeback records
  replay_tx_list,    \* registry of a second processor fed only the accepted records
  replay_accounts,   \* accounts of that second processor
  replay_ok          \* every record fed to the second processor was accepted

vars == <<created_tx_list, accounts, referenced, located, creator, refused,
          charged, frozen, replay_tx_list, replay_accounts, replay_ok>>

\* ---- results and errors ----
Ok(v) == [ok |-> TRUE, val |-> v]
Err(e) == [ok |-> FALSE, err |-> e]

OkResult == [type |-> "Ok", kind |-> "Ok", action |-> "", state |-> ""]

AccountCommandError(kind, action) ==
  [type |-> "CommandErr", kind |-> kind, action |-> action, state |-> ""]

AccountError(kind) ==
  [type |-> "AccountErr", kind |-> kind, action |-> "", state |-> ""]

TransactionDisputeStateMismatch(action, dispute_state_str) ==
  [type |-> "AccountErr", kind |-> "TransactionDisputeStateMismatch",
   action |-> action, state |-> dispute_state_str]

\* ---- account.rs ----
\* Account::default()
DefaultAccount ==
  [available |-> 0, held |-> 0, locked |-> FALSE, txs_under_dispute |-> {}]

\* a total that forgets the held funds
total_amount_available_only(acc) == acc.available

total_amount(acc) == acc.available + acc.held

\* an apply whose Chargedback also takes the amount from available
apply_chargeback_takes_available(acc, event) ==
  CASE event.kind = "Deposited" ->
         [acc EXCEPT !.available = @ + event.amount]
    [] event.kind = "Withdrawn" ->
         [acc EXCEPT !.available = @ - event.amount]
    [] event.kind = "Disputed" ->
         [acc EXCEPT !.available = @ - event.amount,
                     !.held = @ + event.amount,
                     !.txs_under_dispute = @ \cup {event.transaction_id}]
    [] event.kind = "Resolved" ->
         [acc EXCEPT !.available = @ + event.amount,
                     !.held = @ - event.amount,
                     !.txs_under_dispute = @ \ {event.transaction_id}]
    [] event.kind = "Chargedback" ->
         [acc EXCEPT !.available = @ - event.amount,
                     !.held = @ - event.amount,
                     !.locked = TRUE,
                     !.txs_under_dispute = @ \ {event.transaction_id}]

\* an apply whose Resolved does not release the held funds
apply_resolve_keeps_held(acc, event) ==
  CASE event.kind = "Deposited" ->
         [acc EXCEPT !.available = @ + event.amount]
    [] event.kind = "Withdrawn" ->
         [acc EXCEPT !.available = @ - event.amount]
    [] event.kind = "Disputed" ->
         [acc EXCEPT !.available = @ - event.amount,
                     !.held = @ + event.amount,
                     !.txs_under_dispute = @ \cup {event.transaction_id}]
    [] event.kind = "Resolved" ->
         [acc EXCEPT !.available = @ + event.amount,
                     !.txs_under_dispute = @ \ {event.transaction_id}]
    [] event.kind = "Chargedback" ->
         [acc EXCEPT !.held = @ - event.amount,
                     !.locked = TRUE,
                     !.txs_under_dispute = @ \ {event.transaction_id}]

\* an apply whose Resolved leaves the transaction in the dispute-set
apply_resolve_keeps_dispute(acc, event) ==
  CASE event.kind = "Deposited" ->
         [acc EXCEPT !.available = @ + event.amount]
    [] event.kind = "Withdrawn" ->
         [acc EXCEPT !.available = @ - event.amount]
    [] event.kind = "Disputed" ->
         [acc EXCEPT !.available = @ - event.amount,
                     !.held = @ + event.amount,
                     !.txs_under_dispute = @ \cup {event.transaction_id}]
    [] event.kind = "Resolved" ->
         [acc EXCEPT !.available = @ + event.amount,
                     !.held = @ - event.amount]
    [] event.kind = "Chargedback" ->
         [acc EXCEPT !.held = @ - event.amount,
                     !.locked = TRUE,
                     !.txs_under_dispute = @ \ {event.transaction_id}]

\* an apply whose Chargedback leaves the held funds in place
apply_chargeback_keeps_held(acc, event) ==
  CASE event.kind = "Deposited" ->
         [acc EXCEPT !.available = @ + event.amount]
    [] event.kind = "Withdrawn" ->
         [acc EXCEPT !.available = @ - event.amount]
    [] event.kind = "Disputed" ->
         [acc EXCEPT !.available = @ - event.amount,
                     !.held = @ + event.amount,
                     !.txs_under_dispute = @ \cup {event.transaction_id}]
    [] event.kind = "Resolved" ->
         [acc EXCEPT !.available = @ + event.amount,
                     !.held = @ - event.amount,
                     !.txs_under_dispute = @ \ {event.transaction_id}]
    [] event.kind = "Chargedback" ->
         [acc EXCEPT !.locked = TRUE,
                     !.txs_under_dispute = @ \ {event.transaction_id}]

apply(acc, event) ==
  CASE event.kind = "Deposited" ->
         [acc EXCEPT !.available = @ + event.amount]
    [] event.kind = "Withdrawn" ->
         [acc EXCEPT !.available = @ - event.amount]
    [] event.kind = "Disputed" ->
         [acc EXCEPT !.available = @ - event.amount,
                     !.held = @ + event.amount,
                     !.txs_under_dispute = @ \cup {event.transaction_id}]
    [] event.kind = "Resolved" ->
         [acc EXCEPT !.available = @ + event.amount,
                     !.held = @ - event.amount,
                     !.txs_under_dispute = @ \ {event.transaction_id}]
    [] event.kind = "Chargedback" ->
         [acc EXCEPT !.held = @ - event.amount,
                     !.locked = TRUE,
                     !.txs_under_dispute = @ \ {event.transaction_id}]

AccountEvent(transaction_id, amount, kind) ==
  [transaction_id |-> transaction_id, amount |-> amount, kind |-> kind]

\* a creation handler that asks for more than the withdrawn amount
handle_new_transaction_strict(acc, command) ==
  IF acc.locked THEN Err(AccountError("AccountFrozen"))
  ELSE IF command.action = "Deposit"
       THEN Ok(AccountEvent(command.tx_id, command.amount, "Deposited"))
       ELSE IF acc.available > command.amount
            THEN Ok(AccountEvent(command.tx_id, command.amount, "Withdrawn"))
            ELSE Err(AccountError("InsufficientFunds"))

\* a creation handler that forgets the frozen check
handle_new_transaction_unlocked(acc, command) ==
  IF command.action = "Deposit"
  THEN Ok(AccountEvent(command.tx_id, command.amount, "Deposited"))
  ELSE IF acc.available >= command.amount
       THEN Ok(AccountEvent(command.tx_id, command.amount, "Withdrawn"))
       ELSE Err(AccountError("InsufficientFunds"))

\* a creation handler that lets a withdrawal overdraw the account
handle_new_transaction_overdraw(acc, command) ==
  IF acc.locked THEN Err(AccountError("AccountFrozen"))
  ELSE IF command.action = "Deposit"
       THEN Ok(AccountEvent(command.tx_id, command.amount, "Deposited"))
       ELSE Ok(AccountEvent(command.tx_id, command.amount, "Withdrawn"))

handle_new_transaction(acc, command) ==
  IF acc.locked THEN Err(AccountError("AccountFrozen"))
  ELSE IF command.action = "Deposit"
       THEN Ok(AccountEvent(command.tx_id, command.amount, "Deposited"))
       ELSE IF acc.available >= command.amount
            THEN Ok(AccountEvent(command.tx_id, command.amount, "Withdrawn"))
            ELSE Err(AccountError("InsufficientFunds"))

\* a modify handler that checks the available balance before a dispute
handle_modify_transaction_checks_balance(acc, command) ==
  IF acc.locked THEN Err(AccountError("AccountFrozen"))
  ELSE LET amount == command.amount
           transaction_id == command.tx_id
           under_dispute == command.tx_id \in acc.txs_under_dispute
       IN CASE command.action = "Dispute" /\ ~under_dispute ->
                 IF command.create_action = "Deposit"
                 THEN IF acc.available >= amount
                      THEN Ok(AccountEvent(transaction_id, amount, "Disputed"))
                      ELSE Err(AccountError("InsufficientFunds"))
                 ELSE Err(AccountError("DisputeNotSupported"))
            [] command.action = "Resolve" /\ under_dispute ->
                 Ok(AccountEvent(transaction_id, amount, "Resolved"))
            [] command.action = "Chargeback" /\ under_dispute ->
                 Ok(AccountEvent(transaction_id, amount, "Chargedback"))
            [] OTHER ->
                 Err(TransactionDisputeStateMismatch(command.action,
                       IF under_dispute THEN "already under dispute"
                                        ELSE "not under dispute"))

\* a modify handler that reports the dispute state the wrong way round
handle_modify_transaction_swapped_state(acc, command) ==
  IF acc.locked THEN Err(AccountError("AccountFrozen"))
  ELSE LET amount == command.amount
           transaction_id == command.tx_id
           under_dispute == command.tx_id \in acc.txs_under_dispute
       IN CASE command.action = "Dispute" /\ ~under_dispute ->
                 IF command.create_action = "Deposit"
                 THEN Ok(AccountEvent(transaction_id, amount, "Disputed"))
                 ELSE Err(AccountError("DisputeNotSupported"))
            [] command.action = "Resolve" /\ under_dispute ->
                 Ok(AccountEvent(transaction_id, amount, "Resolved"))
            [] command.action = "Chargeback" /\ under_dispute ->
                 Ok(AccountEvent(transaction_id, amount, "Chargedback"))
            [] OTHER ->
                 Err(TransactionDisputeStateMismatch(command.action,
                       IF under_dispute THEN "not under dispute"
                                        ELSE "already under dispute"))

\* a modify handler that checks the dispute state before the frozen flag
handle_modify_transaction_state_first(acc, command) ==
  LET amount == command.amount
      transaction_id == command.tx_id
      under_dispute == command.tx_id \in acc.txs_under_dispute
  IN CASE command.action = "Dispute" /\ ~under_dispute
            /\ command.create_action = "Withdraw" ->
            Err(AccountError("DisputeNotSupported"))
       [] command.action = "Resolve" /\ under_dispute /\ ~acc.locked ->
            Ok(AccountEvent(transaction_id, amount, "Resolved"))
       [] command.action = "Chargeback" /\ under_dispute /\ ~acc.locked ->
            Ok(AccountEvent(transaction_id, amount, "Chargedback"))
       [] command.action = "Dispute" /\ ~under_dispute /\ ~acc.locked ->
            Ok(AccountEvent(transaction_id, amount, "Disputed"))
       [] acc.locked -> Err(AccountError("AccountFrozen"))
       [] OTHER ->
            Err(TransactionDisputeStateMismatch(command.action,
                  IF under_dispute THEN "already under dispute"
                                   ELSE "not under dispute"))

\* a modify handler that forgets the frozen check
handle_modify_transaction_unlocked(acc, command) ==
  LET amount == command.amount
      transaction_id == command.tx_id
      under_dispute == command.tx_id \in acc.txs_under_dispute
  IN CASE command.action = "Dispute" /\ ~under_dispute ->
            IF command.create_action = "Deposit"
            THEN Ok(AccountEvent(transaction_id, amount, "Disputed"))
            ELSE Err(AccountError("DisputeNotSupported"))
       [] command.action = "Resolve" /\ under_dispute ->
            Ok(AccountEvent(transaction_id, amount, "Resolved"))
       [] command.action = "Chargeback" /\ under_dispute ->
            Ok(AccountEvent(transaction_id, amount, "Chargedback"))
       [] OTHER ->
            Err(TransactionDisputeStateMismatch(command.action,
                  IF under_dispute THEN "already under dispute"
                                   ELSE "not under dispute"))

handle_modify_transaction(acc, command) ==
  IF acc.locked THEN Err(AccountError("AccountFrozen"))
  ELSE LET amount == command.amount
           transaction_id == command.tx_id
           under_dispute == command.tx_id \in acc.txs_under_dispute
       IN CASE command.action = "Dispute" /\ ~under_dispute ->
                 IF command.create_action = "Deposit"
                 THEN Ok(AccountEvent(transaction_id, amount, "Disputed"))
                 ELSE Err(AccountError("DisputeNotSupported"))
            [] command.action = "Resolve" /\ under_dispute ->
                 Ok(AccountEvent(transaction_id, amount, "Resolved"))
            [] command.action = "Chargeback" /\ under_dispute ->
                 Ok(AccountEvent(transaction_id, amount, "Chargedback"))
            [] OTHER ->
                 Err(TransactionDisputeStateMismatch(command.action,
                       IF under_dispute THEN "already under dispute"
                                        ELSE "not under dispute"))

\* ---- command.rs ----
CreateTransactionCommand(tx_id, action, amount) ==
  [tx_id |-> tx_id, action |-> action, amount |-> amount]

ModifyTransactionCommand(tx_id, action, amount, create_action) ==
  [tx_id |-> tx_id, action |-> action, amount |-> amount,
   create_action |-> create_action]

\* Entry::Occupied / Entry::Vacant of created_tx_list.entry(tx_id)
Occupied(tx_list, tx_id) == tx_id \in DOMAIN tx_list

\* a creation validator that refuses an amount of zero
parse_create_command_positive(tx_list, tx_id, amount, action) ==
  IF Occupied(tx_list, tx_id)
  THEN Err(AccountCommandError("DuplicateTransaction", action))
  ELSE IF amount # None
       THEN IF amount[1] > 0
            THEN Ok(CreateTransactionCommand(tx_id, action, amount[1]))
            ELSE Err(AccountCommandError("NegativeAmount", action))
       ELSE Err(AccountCommandError("AmountRequired", action))

\* a creation validator that looks at the amount before the registry slot
parse_create_command_amount_first(tx_list, tx_id, amount, action) ==
  IF amount = None
  THEN Err(AccountCommandError("AmountRequired", action))
  ELSE IF amount[1] < 0
       THEN Err(AccountCommandError("NegativeAmount", action))
       ELSE IF Occupied(tx_list, tx_id)
            THEN Err(AccountCommandError("DuplicateTransaction", action))
            ELSE Ok(CreateTransactionCommand(tx_id, action, amount[1]))

parse_create_command(tx_list, tx_id, amount, action) ==
  IF Occupied(tx_list, tx_id)
  THEN Err(AccountCommandError("DuplicateTransaction", action))
  ELSE IF amount # None
       THEN IF amount[1] >= 0
            THEN Ok(CreateTransactionCommand(tx_id, action, amount[1]))
            ELSE Err(AccountCommandError("NegativeAmount", action))
       ELSE Err(AccountCommandError("AmountRequired", action))

\* a modify validator that falls back to an empty deposit for a vacant slot
parse_modify_command_or_default(tx_list, tx_id, action) ==
  IF ~Occupied(tx_list, tx_id)
  THEN Ok(ModifyTransactionCommand(tx_id, action, 0, "Deposit"))
  ELSE Ok(ModifyTransactionCommand(tx_id, action, tx_list[tx_id].amount,
                                   tx_list[tx_id].action))

parse_modify_command(tx_list, tx_id, action) ==
  IF ~Occupied(tx_list, tx_id)
  THEN Err(AccountCommandError("ExistingTxRequired", action))
  ELSE Ok(ModifyTransactionCommand(tx_id, action, tx_list[tx_id].amount,
                                   tx_list[tx_id].action))

CreateTx(r) == IF r.ok THEN Ok([type |-> "CreateTx", command |-> r.val]) ELSE r
ModifyTx(r) == IF r.ok THEN Ok([type |-> "ModifyTx", command |-> r.val]) ELSE r

\* a modify command that takes the amount of the record when it has one
WithRecordAmount(r, amount) ==
  IF r.ok /\ amount # None
  THEN Ok([r.val EXCEPT !.command.amount = amount[1]])
  ELSE r

\* a validator that lets the record's amount override the registry's
parse_command_record_amount(tx_list, tx_id, kind, amount) ==
  CASE kind = "Deposit" ->
         CreateTx(parse_create_command(tx_list, tx_id, amount, "Deposit"))
    [] kind = "Withdrawal" ->
         CreateTx(parse_create_command(tx_list, tx_id, amount, "Withdraw"))
    [] kind = "Dispute" ->
         WithRecordAmount(
           ModifyTx(parse_modify_command(tx_list, tx_id, "Dispute")), amount)
    [] kind = "Resolve" ->
         WithRecordAmount(
           ModifyTx(parse_modify_command(tx_list, tx_id, "Resolve")), amount)
    [] kind = "Chargeback" ->
         WithRecordAmount(
           ModifyTx(parse_modify_command(tx_list, tx_id, "Chargeback")), amount)

parse_command(tx_list, tx_id, kind, amount) ==
  CASE kind = "Deposit" ->
         CreateTx(parse_create_command(tx_list, tx_id, amount, "Deposit"))
    [] kind = "Withdrawal" ->
         CreateTx(parse_create_command(tx_list, tx_id, amount, "Withdraw"))
    [] kind = "Dispute" ->
         ModifyTx(parse_modify_command(tx_list, tx_id, "Dispute"))
    [] kind = "Resolve" ->
         ModifyTx(parse_modify_command(tx_list, tx_id, "Resolve"))
    [] kind = "Chargeback" ->
         ModifyTx(parse_modify_command(tx_list, tx_id, "Chargeback"))

\* ---- processor/in_memory_processor.rs ----
\* self.accounts.insert(client_id, Account::default()): the account is reset
or_default_insert(accs, client_id) ==
  [c \in DOMAIN accs \cup {client_id} |->
     IF c = client_id THEN DefaultAccount ELSE accs[c]]

\* self.accounts.entry(client_id).or_default()
or_default(accs, client_id) ==
  IF client_id \in DOMAIN accs THEN accs ELSE (client_id :> DefaultAccount) @@ accs

\* tx_entry.insert_entry(command)
insert_entry(tx_list, tx_id, command) == (tx_id :> command) @@ tx_list

\* what a call leaves behind and returns
Outcome(tx_list, accs, result) ==
  [created_tx_list |-> tx_list, accounts |-> accs, result |-> result]

\* a creation arm that commits the registry entry before the handler ran
CreateTxArm_commit_first(tx_list, accs, tx_id, client_id, command) ==
  LET acc == accs[client_id]
      evt == handle_new_transaction(acc, command)
  IN IF ~evt.ok
     THEN Outcome(insert_entry(tx_list, tx_id, command), accs, evt.err)
     ELSE Outcome(insert_entry(tx_list, tx_id, command),
                  [accs EXCEPT ![client_id] = apply(acc, evt.val)],
                  OkResult)

\* match arm AccountCommand::CreateTx(command)
CreateTxArm(tx_list, accs, tx_id, client_id, command) ==
  LET acc == accs[client_id]
      evt == handle_new_transaction(acc, command)
  IN IF ~evt.ok THEN Outcome(tx_list, accs, evt.err)
     ELSE Outcome(insert_entry(tx_list, tx_id, command),
                  [accs EXCEPT ![client_id] = apply(acc, evt.val)],
                  OkResult)

\* a modify arm that drops the registry entry of a charged-back transaction
ModifyTxArm_remove_charged(tx_list, accs, tx_id, client_id, command) ==
  LET acc == accs[client_id]
      evt == handle_modify_transaction(acc, command)
  IN IF ~evt.ok THEN Outcome(tx_list, accs, evt.err)
     ELSE Outcome(IF evt.val.kind = "Chargedback"
                  THEN [t \in DOMAIN tx_list \ {tx_id} |-> tx_list[t]]
                  ELSE tx_list,
                  [accs EXCEPT ![client_id] = apply(acc, evt.val)],
                  OkResult)

\* a modify arm that applies the event to every account
ModifyTxArm_every_account(tx_list, accs, tx_id, client_id, command) ==
  LET acc == accs[client_id]
      evt == handle_modify_transaction(acc, command)
  IN IF ~evt.ok THEN Outcome(tx_list, accs, evt.err)
     ELSE Outcome(tx_list,
                  [c \in DOMAIN accs |-> apply(accs[c], evt.val)],
                  OkResult)

\* match arm AccountCommand::ModifyTx(command)
ModifyTxArm(tx_list, accs, tx_id, client_id, command) ==
  LET acc == accs[client_id]
      evt == handle_modify_transaction(acc, command)
  IN IF ~evt.ok THEN Outcome(tx_list, accs, evt.err)
     ELSE Outcome(tx_list,
                  [accs EXCEPT ![client_id] = apply(acc, evt.val)],
                  OkResult)

\* a processor that locates the account before it validates the command
process_transaction_locate_first(tx_list, accs, tx_id, client_id, amount, kind) ==
  LET accs1 == or_default(accs, client_id)
      cmd == parse_command(tx_list, tx_id, kind, amount)
  IN IF ~cmd.ok THEN Outcome(tx_list, accs1, cmd.err)
     ELSE IF cmd.val.type = "CreateTx"
          THEN CreateTxArm(tx_list, accs1, tx_id, client_id, cmd.val.command)
          ELSE ModifyTxArm(tx_list, accs1, tx_id, client_id, cmd.val.command)

\* a processor that locates the account and looks at its frozen flag before
\* it validates the command
process_transaction_frozen_first(tx_list, accs, tx_id, client_id, amount, kind) ==
  LET accs1 == or_default(accs, client_id)
      cmd == parse_command(tx_list, tx_id, kind, amount)
  IN IF accs1[client_id].locked
     THEN Outcome(tx_list, accs1, AccountError("AccountFrozen"))
     ELSE IF ~cmd.ok THEN Outcome(tx_list, accs1, cmd.err)
     ELSE IF cmd.val.type = "CreateTx"
          THEN CreateTxArm(tx_list, accs1, tx_id, client_id, cmd.val.command)
          ELSE ModifyTxArm(tx_list, accs1, tx_id, client_id, cmd.val.command)

\* a processor that fills the registry slot as soon as the creation command
\* is validated, before the account handles it
process_transaction_reserve_slot(tx_list, accs, tx_id, client_id, amount, kind) ==
  LET cmd == parse_command(tx_list, tx_id, kind, amount) IN
  IF ~cmd.ok THEN Outcome(tx_list, accs, cmd.err)
  ELSE LET accs1 == or_default(accs, client_id) IN
       IF cmd.val.type = "CreateTx"
       THEN LET out == CreateTxArm(tx_list, accs1, tx_id, client_id,
                                   cmd.val.command)
            IN Outcome(insert_entry(tx_list, tx_id, cmd.val.command),
                       out.accounts, out.result)
       ELSE ModifyTxArm(tx_list, accs1, tx_id, client_id, cmd.val.command)

process_transaction(tx_list, accs, tx_id, client_id, amount, kind) ==
  LET cmd == parse_command(tx_list, tx_id, kind, amount) IN
  IF ~cmd.ok THEN Outcome(tx_list, accs, cmd.err)
  ELSE LET accs1 == or_default(accs, client_id) IN
       IF cmd.val.type = "CreateTx"
       THEN CreateTxArm(tx_list, accs1, tx_id, client_id, cmd.val.command)
       ELSE ModifyTxArm(tx_list, accs1, tx_id, client_id, cmd.val.command)

\* ---- bin_utils/mod.rs ----
\* the rows Service::run hands to print_accounts
Export(accs) ==
  { [client |-> c, available |-> accs[c].available, held |-> accs[c].held,
     total |-> total_amount(accs[c]), locked |-> accs[c].locked]
    : c \in DOMAIN accs }

\* ---- records of the input stream (csv_parser.rs: Transaction) ----
Transaction(kind, client, tx, amount) ==
  [kind |-> kind, client |-> client, tx |-> tx, amount |-> amount]

CreateKinds == {"Deposit", "Withdrawal"}
ModifyKinds == {"Dispute", "Resolve", "Chargeback"}

CreateRecords ==
  { Transaction(k, c, t, a) : k \in CreateKinds, c \in ClientIds, t \in TxIds,
                              a \in OptAmounts }
ModifyRecords ==
  { Transaction(k, c, t, a) : k \in ModifyKinds, c \in ClientIds, t \in TxIds,
                              a \in ModifyAmounts }
Records == CreateRecords \cup ModifyRecords

\* processor.process_transaction(row.tx, row.client, row.amount, row.kind)
\* in the current state
Call(row) ==
  process_transaction(created_tx_list, accounts, row.tx, row.client,
                      row.amount, row.kind)

IsOk(out) == out.result.type = "Ok"

\* ---- state machine ----
EmptyMap == [x \in {} |-> 0]

Init ==
  /\ created_tx_list = EmptyMap
  /\ accounts = EmptyMap
  /\ referenced = {}
  /\ located = {}
  /\ creator = EmptyMap
  /\ refused = {}
  /\ charged = {}
  /\ frozen = {}
  /\ replay_tx_list = EmptyMap
  /\ replay_accounts = EmptyMap
  /\ replay_ok = TRUE

\* One iteration of the loop of Service::run: a row is read and processed.
\* A second processor is fed the row only when the first one accepted it.
Process(row) ==
  LET out == Call(row)
      rout == process_transaction(replay_tx_list, replay_accounts,
                                  row.tx, row.client, row.amount, row.kind)
  IN /\ created_tx_list' = out.created_tx_list
     /\ accounts' = out.accounts
     /\ referenced' = referenced \cup {row.client}
     /\ located' = IF out.result.type = "CommandErr" THEN located
                   ELSE located \cup {row.client}
     /\ creator' = IF IsOk(out) /\ row.kind \in CreateKinds
                   THEN (row.tx :> row.client) @@ creator ELSE creator
     /\ refused' = IF ~IsOk(out) /\ row.kind \in CreateKinds
                   THEN refused \cup {row.tx} ELSE refused
     /\ charged' = IF IsOk(out) /\ row.kind = "Chargeback"
                   THEN charged \cup {row.tx} ELSE charged
     /\ frozen' = IF IsOk(out) /\ row.kind = "Chargeback"
                  THEN frozen \cup {row.client} ELSE frozen
     /\ IF IsOk(out)
        THEN /\ replay_tx_list' = rout.created_tx_list
             /\ replay_accounts' = rout.accounts
             /\ replay_ok' = (replay_ok /\ IsOk(rout))
        ELSE UNCHANGED <<replay_tx_list, replay_accounts, replay_ok>>

Deposit == \E row \in CreateRecords : row.kind = "Deposit" /\ Process(row)
Withdrawal == \E row \in CreateRecords : row.kind = "Withdrawal" /\ Process(row)
Dispute == \E row \in ModifyRecords : row.kind = "Dispute" /\ Process(row)
Resolve == \E row \in ModifyRecords : row.kind = "Resolve" /\ Process(row)
Chargeback == \E row \in ModifyRecords : row.kind = "Chargeback" /\ Process(row)

Next == Deposit \/ Withdrawal \/ Dispute \/ Resolve \/ Chargeback

Spec == Init /\ [][Next]_vars

TypeOK ==
  /\ DOMAIN created_tx_list \subseteq TxIds
  /\ DOMAIN accounts \subseteq ClientIds
  /\ \A t \in DOMAIN created_tx_list :
        /\ created_tx_list[t].tx_id = t
        /\ created_tx_list[t].action \in {"Deposit", "Withdraw"}
        /\ created_tx_list[t].amount \in 0..MaxAmount

\* ======================= claims =======================

\* the accounts of accs that existed in the current state are as they were
ExistingUntouched(accs) ==
  \A c \in DOMAIN accounts : c \in DOMAIN accs /\ accs[c] = accounts[c]

\* C1 as stated: every record that process_transaction rejects leaves the
\* registry, every account and the set of accounts exactly as before the call.
C1_RejectedLeavesAllState ==
  \A row \in Records :
    LET out == Call(row) IN
    ~IsOk(out) =>
      /\ out.created_tx_list = created_tx_list
      /\ out.accounts = accounts

\* C1 amended: a rejected record leaves the registry and every existing
\* account unchanged; the set of accounts is unchanged when the rejection is a
\* CommandError, and after an AccountError it is the old set plus the record's
\* client, whose account, if it is new, is the default one (0, 0, unlocked,
\* nothing under dispute).
C1_RejectedLeavesStateButNewAccount ==
  \A row \in Records :
    LET out == Call(row) IN
    ~IsOk(out) =>
      /\ out.created_tx_list = created_tx_list
      /\ ExistingUntouched(out.accounts)
      /\ out.result.type = "CommandErr" => out.accounts = accounts
      /\ out.result.type = "AccountErr" =>
           /\ DOMAIN out.accounts = DOMAIN accounts \cup {row.client}
           /\ row.client \notin DOMAIN accounts =>
                out.accounts[row.client] = DefaultAccount

\* C1 witness: with a registered transaction and a funded account, a record of
\* a client without account is rejected by the account and one by the validator.
C1_Witness ==
  /\ DOMAIN created_tx_list # {}
  /\ \E c \in DOMAIN accounts : accounts[c].available > 0
  /\ \E row \in Records :
       /\ row.client \notin DOMAIN accounts
       /\ Call(row).result.type = "AccountErr"
  /\ \E row \in Records : Call(row).result.type = "CommandErr"

\* C2 as stated: after an accepted Chargeback of a client, every later record
\* of that client, well-formed or not, is rejected with AccountFrozen.
C2_FrozenRejectsAllWithAccountFrozen ==
  \A row \in Records :
    row.client \in frozen => Call(row).result.kind = "AccountFrozen"

\* the error the validator raises for a record, "" when the record passes:
\* the slot is looked at first, then the amount
ValidationError(row) ==
  IF row.kind \in CreateKinds
  THEN IF row.tx \in DOMAIN creator THEN "DuplicateTransaction"
       ELSE IF row.amount = None THEN "AmountRequired"
       ELSE IF row.amount[1] < 0 THEN "NegativeAmount"
       ELSE ""
  ELSE IF row.tx \notin DOMAIN creator THEN "ExistingTxRequired" ELSE ""

\* C2 amended: after an accepted Chargeback of a client, every later record of
\* that client is rejected: with its CommandError when it fails command
\* validation (duplicate tx id, missing amount, negative amount, unknown tx
\* id), and with AccountFrozen otherwise.
C2_FrozenRejectsAll ==
  \A row \in Records :
    row.client \in frozen =>
      LET out == Call(row) IN
      /\ ~IsOk(out)
      /\ IF ValidationError(row) = ""
         THEN out.result.type = "AccountErr" /\ out.result.kind = "AccountFrozen"
         ELSE out.result.type = "CommandErr"
              /\ out.result.kind = ValidationError(row)

\* C2 witness: a client is frozen and a well-formed Deposit, a Dispute of a
\* registered transaction and a Deposit without amount are at hand for it.
C2_Witness ==
  \E c \in frozen :
    /\ \E row \in CreateRecords :
         row.client = c /\ Call(row).result.kind = "AccountFrozen"
    /\ \E row \in ModifyRecords :
         row.client = c /\ Call(row).result.kind = "AccountFrozen"
    /\ \E row \in CreateRecords :
         row.client = c /\ Call(row).result.kind = "AmountRequired"

\* C3: once an account is locked it stays locked, no later record of its
\* client is accepted, and its available, held and dispute-set never change,
\* whichever record is processed next.
C3_LockedIsFinal ==
  \A c \in DOMAIN accounts :
    accounts[c].locked =>
      \A row \in Records :
        LET out == Call(row) IN
        /\ c \in DOMAIN out.accounts
        /\ out.accounts[c].locked
        /\ out.accounts[c] = accounts[c]
        /\ row.client = c => ~IsOk(out)

\* C3 witness: a locked account that still holds a disputed transaction, and
\* another client's record is accepted meanwhile.
C3_Witness ==
  \E c \in DOMAIN accounts :
    /\ accounts[c].locked
    /\ accounts[c].txs_under_dispute # {}
    /\ \E row \in Records : row.client # c /\ IsOk(Call(row))

\* C4: once a Deposit or Withdrawal with transaction id t was accepted, every
\* later Deposit or Withdrawal with the same t, of any client and with any
\* amount, is rejected with DuplicateTransaction; the registry holds exactly
\* the accepted creations, one entry per id.
C4_RegistryGlobal ==
  /\ DOMAIN created_tx_list = DOMAIN creator
  /\ \A row \in CreateRecords :
       row.tx \in DOMAIN creator =>
         LET out == Call(row) IN
         /\ out.result.type = "CommandErr"
         /\ out.result.kind = "DuplicateTransaction"
         /\ out.created_tx_list = created_tx_list

\* C4 witness: a transaction id created by one client is reused by a record of
\* another client.
C4_Witness ==
  \E row \in CreateRecords :
    /\ row.tx \in DOMAIN creator
    /\ creator[row.tx] # row.client
    /\ row.amount = None
    /\ Call(row).result.kind = "DuplicateTransaction"

\* C5: every transaction id in an account's dispute-set was created by a
\* record of that account's client, and a Dispute, Resolve or Chargeback of a
\* client other than the creator never changes any account.
C5_CreatorAuthoritative ==
  /\ \A c \in DOMAIN accounts :
       \A t \in accounts[c].txs_under_dispute :
         t \in DOMAIN creator /\ creator[t] = c
  /\ \A row \in ModifyRecords :
       (row.tx \in DOMAIN creator /\ creator[row.tx] # row.client) =>
         LET out == Call(row) IN
         \A c \in DOMAIN accounts :
           /\ out.accounts[c].available = accounts[c].available
           /\ out.accounts[c].held = accounts[c].held
           /\ out.accounts[c].locked = accounts[c].locked

\* C6 as stated: the replay of the accepted records accepts each of them and
\* exports the same tuples for the same clients as the original run.
C6_ReplaySameExport ==
  replay_ok /\ Export(replay_accounts) = Export(accounts)

\* C6 amended: the replay of the accepted records accepts each of them and
\* exports, for every client it exports, the tuple of the original run; a
\* client only the original run exports has the tuple 0, 0, 0, unlocked.
C6_ReplaySameBalances ==
  /\ replay_ok
  /\ Export(replay_accounts) \subseteq Export(accounts)
  /\ \A r \in Export(accounts) \ Export(replay_accounts) :
       /\ r.client \notin DOMAIN replay_accounts
       /\ r.available = 0 /\ r.held = 0 /\ r.total = 0 /\ ~r.locked

\* C6 witness: the original run exports a client the replay does not, next to
\* a replayed account that is locked.
C6_Witness ==
  /\ DOMAIN accounts # DOMAIN replay_accounts
  /\ \E c \in DOMAIN replay_accounts : replay_accounts[c].locked

\* C7 as stated: the exported clients are exactly the client ids of all
\* processed records, accepted or rejected, one tuple each.
C7_ExportIsReferenced ==
  /\ {r.client : r \in Export(accounts)} = referenced
  /\ Cardinality(Export(accounts)) = Cardinality(referenced)

\* C7 amended: the exported clients are exactly the client ids of the
\* processed records that passed command validation (accepted, or rejected by
\* the account), one tuple each.
C7_ExportIsLocated ==
  /\ {r.client : r \in Export(accounts)} = located
  /\ Cardinality(Export(accounts)) = Cardinality(located)

\* C7 witness: a client whose records all failed command validation, next to
\* a client with an account.
C7_Witness ==
  /\ located # {}
  /\ referenced \ located # {}

\* C8: once a Chargeback of transaction id t was accepted, no later Dispute,
\* Resolve or Chargeback naming t is accepted, for any client.
C8_ChargedbackTerminal ==
  \A row \in ModifyRecords :
    row.tx \in charged => ~IsOk(Call(row))

\* the registry entry of tx was created by a Withdrawal
IsWithdrawal(tx) ==
  tx \in DOMAIN created_tx_list /\ created_tx_list[tx].action = "Withdraw"

\* C9 as stated: a Dispute of a transaction created by a Withdrawal is
\* rejected with DisputeNotSupported in every state, also on a locked account.
C9_WithdrawalDisputeNotSupported ==
  \A row \in ModifyRecords :
    (row.kind = "Dispute" /\ IsWithdrawal(row.tx)) =>
      Call(row).result.kind = "DisputeNotSupported"

\* C9 amended: a Dispute of a transaction created by a Withdrawal is rejected
\* in every state and for every client: with DisputeNotSupported when the
\* client's account is not locked, with AccountFrozen when it is locked.
C9_WithdrawalDisputeRejected ==
  \A row \in ModifyRecords :
    (row.kind = "Dispute" /\ IsWithdrawal(row.tx)) =>
      LET out == Call(row)
          isLocked == row.client \in DOMAIN accounts /\ accounts[row.client].locked
      IN /\ out.result.type = "AccountErr"
         /\ out.result.kind =
              IF isLocked THEN "AccountFrozen" ELSE "DisputeNotSupported"

\* C9 witness: a registered withdrawal, a locked account and an unlocked one
\* with a transaction under dispute.
C9_Witness ==
  /\ \E t \in TxIds : IsWithdrawal(t)
  /\ \E c \in DOMAIN accounts : accounts[c].locked
  /\ \E c \in DOMAIN accounts :
       ~accounts[c].locked /\ accounts[c].txs_under_dispute # {}

\* C10: a Dispute, Resolve or Chargeback whose transaction id no accepted
\* creation registered is rejected with ExistingTxRequired and changes no
\* account, for every client and in every state, also when a creation with
\* that id was rejected before.
C10_ExistingTxRequired ==
  \A row \in ModifyRecords :
    row.tx \notin DOMAIN creator =>
      LET out == Call(row) IN
      /\ out.result.type = "CommandErr"
      /\ out.result.kind = "ExistingTxRequired"
      /\ out.accounts = accounts
      /\ out.created_tx_list = created_tx_list

\* C10 witness: the id of a rejected creation is still unregistered while a
\* locked account and an account without funds exist.
C10_Witness ==
  /\ refused \ DOMAIN creator # {}
  /\ \E c \in DOMAIN accounts : accounts[c].locked
  /\ \E row \in ModifyRecords :
       /\ row.tx \in refused \ DOMAIN creator
       /\ row.client \in DOMAIN accounts
       /\ accounts[row.client].locked

\* ---- helpers of the claims below ----
\* process_transaction for row in the state a previous call left
CallIn(out, row) ==
  process_transaction(out.created_tx_list, out.accounts, row.tx, row.client,
                      row.amount, row.kind)

\* the account accounts.entry(client).or_default() yields in the current state
AccountOf(client) == or_default(accounts, client)[client]

Registered(tx) == tx \in DOMAIN creator

\* C11: on an unlocked account, a Resolve or Chargeback of a registered
\* transaction outside the dispute-set fails TransactionDisputeStateMismatch
\* with "not under dispute", a Dispute of a transaction inside it fails with
\* "already under dispute", and the reported state is the actual membership.
C11_DisputeStateMismatch ==
  \A row \in ModifyRecords :
    (Registered(row.tx) /\ ~AccountOf(row.client).locked) =>
      LET out == Call(row)
          member == row.tx \in AccountOf(row.client).txs_under_dispute
      IN /\ (row.kind \in {"Resolve", "Chargeback"} /\ ~member) =>
              out.result = TransactionDisputeStateMismatch(row.kind,
                                                           "not under dispute")
         /\ (row.kind = "Dispute" /\ member) =>
              out.result = TransactionDisputeStateMismatch("Dispute",
                                                           "already under dispute")
         /\ out.result.kind = "TransactionDisputeStateMismatch" =>
              /\ out.result.action = row.kind
              /\ out.result.state = IF member THEN "already under dispute"
                                              ELSE "not under dispute"

\* C11 witness: an unlocked account with one registered transaction under
\* dispute and another registered one that is not.
C11_Witness ==
  \E c \in DOMAIN accounts :
    /\ ~accounts[c].locked
    /\ \E t \in accounts[c].txs_under_dispute :
         Call(Transaction("Dispute", c, t, None)).result.state
           = "already under dispute"
    /\ \E t \in DOMAIN creator \ accounts[c].txs_under_dispute :
         Call(Transaction("Chargeback", c, t, None)).result.state
           = "not under dispute"

\* a deposit of client that is not under dispute on its unlocked account
OpenDeposit(client, tx) ==
  /\ Registered(tx) /\ creator[tx] = client
  /\ created_tx_list[tx].action = "Deposit"
  /\ ~AccountOf(client).locked
  /\ tx \notin AccountOf(client).txs_under_dispute

\* C12: for a deposit of an unlocked account that is not under dispute, the
\* sequence Dispute, Resolve, Dispute of the same client is accepted at all
\* three steps, the transaction being in the dispute-set after each Dispute
\* and out of it after the Resolve; the state after the Resolve is again one
\* the cycle starts from.
C12_ReDispute ==
  \A c \in ClientIds, t \in TxIds, a \in ModifyAmounts :
    OpenDeposit(c, t) =>
      LET d1 == Call(Transaction("Dispute", c, t, a))
          r1 == CallIn(d1, Transaction("Resolve", c, t, a))
          d2 == CallIn(r1, Transaction("Dispute", c, t, a))
      IN /\ IsOk(d1) /\ t \in d1.accounts[c].txs_under_dispute
         /\ IsOk(r1) /\ t \notin r1.accounts[c].txs_under_dispute
         /\ ~r1.accounts[c].locked
         /\ IsOk(d2) /\ t \in d2.accounts[c].txs_under_dispute

\* C12 witness: a funded deposit goes through Dispute, Resolve, Dispute,
\* Resolve, Dispute, every step accepted.
C12_Witness ==
  \E c \in ClientIds, t \in TxIds :
    /\ OpenDeposit(c, t)
    /\ created_tx_list[t].amount > 0
    /\ LET d1 == Call(Transaction("Dispute", c, t, None))
           r1 == CallIn(d1, Transaction("Resolve", c, t, None))
           d2 == CallIn(r1, Transaction("Dispute", c, t, None))
           r2 == CallIn(d2, Transaction("Resolve", c, t, None))
           d3 == CallIn(r2, Transaction("Dispute", c, t, None))
       IN /\ IsOk(d1) /\ IsOk(r1) /\ IsOk(d2) /\ IsOk(r2) /\ IsOk(d3)
          /\ d3.accounts[c].held = created_tx_list[t].amount

\* C13: on an unlocked account a Withdrawal that passed command validation is
\* accepted iff available >= amount; accepted, it lowers available by exactly
\* amount and leaves it >= 0, otherwise it fails InsufficientFunds.
C13_WithdrawIffFunds ==
  \A row \in CreateRecords :
    LET out == Call(row)
        acc == AccountOf(row.client)
    IN (row.kind = "Withdrawal" /\ out.result.type # "CommandErr"
          /\ ~acc.locked) =>
         IF acc.available >= row.amount[1]
         THEN /\ IsOk(out)
              /\ out.accounts[row.client].available
                   = acc.available - row.amount[1]
              /\ out.accounts[row.client].available >= 0
              /\ out.accounts[row.client].held = acc.held
         ELSE /\ out.result = AccountError("InsufficientFunds")
              /\ out.accounts[row.client] = acc

\* C13 witness: an unlocked account whose whole available balance can be
\* withdrawn, while a larger withdrawal is refused.
C13_Witness ==
  \E c \in DOMAIN accounts :
    /\ ~accounts[c].locked
    /\ accounts[c].available = 1
    /\ \E t \in TxIds :
         /\ IsOk(Call(Transaction("Withdrawal", c, t, Some(1))))
         /\ Call(Transaction("Withdrawal", c, t, Some(2))).result.kind
              = "InsufficientFunds"

\* C14: the outcome of a Dispute, Resolve or Chargeback record (result and
\* state left) is the same whatever its own amount field holds, absent,
\* negative or any value, and an accepted one moves exactly the amount the
\* registry stores for the transaction id.
C14_ModifyIgnoresRecordAmount ==
  \A k \in ModifyKinds, c \in ClientIds, t \in TxIds :
    LET ref == Call(Transaction(k, c, t, None))
        before == AccountOf(c)
    IN /\ \A a \in OptAmounts : Call(Transaction(k, c, t, a)) = ref
       /\ IsOk(ref) =>
            LET after == ref.accounts[c]
                stored == created_tx_list[t].amount
            IN CASE k = "Dispute" ->
                      /\ before.available - after.available = stored
                      /\ after.held - before.held = stored
                 [] k = "Resolve" ->
                      /\ after.available - before.available = stored
                      /\ before.held - after.held = stored
                 [] k = "Chargeback" ->
                      /\ before.held - after.held = stored
                      /\ after.available = before.available

\* C14 witness: a deposit of 1 is registered and a Dispute record carrying the
\* amount 2 is accepted and holds 1.
C14_Witness ==
  \E c \in ClientIds, t \in DOMAIN created_tx_list :
    /\ created_tx_list[t].amount = 1
    /\ LET out == Call(Transaction("Dispute", c, t, Some(2)))
       IN /\ IsOk(out)
          /\ out.accounts[c].held = AccountOf(c).held + 1

\* the registry entry an accepted creation record commits
EntryOf(row) ==
  CreateTransactionCommand(row.tx,
                           IF row.kind = "Deposit" THEN "Deposit" ELSE "Withdraw",
                           row.amount[1])

\* C15: the registry is append-only and immutable: whatever record is
\* processed, every existing entry keeps its id, action and amount and stays
\* in the registry (also the entry of a charged-back transaction), and an
\* entry is added only by an accepted Deposit or Withdrawal, which adds
\* exactly its own entry.
C15_RegistryAppendOnly ==
  /\ charged \subseteq DOMAIN created_tx_list
  /\ \A t \in DOMAIN created_tx_list : created_tx_list[t].tx_id = t
  /\ \A row \in Records :
       LET out == Call(row) IN
       /\ \A t \in DOMAIN created_tx_list :
            /\ t \in DOMAIN out.created_tx_list
            /\ out.created_tx_list[t] = created_tx_list[t]
       /\ IF IsOk(out) /\ row.kind \in CreateKinds
          THEN /\ DOMAIN out.created_tx_list
                    = DOMAIN created_tx_list \cup {row.tx}
               /\ row.tx \notin DOMAIN created_tx_list
               /\ out.created_tx_list[row.tx] = EntryOf(row)
          ELSE out.created_tx_list = created_tx_list

\* C15 witness: a charged-back transaction is still registered, the id of a
\* rejected creation is not, and an accepted creation can still add an entry.
C15_Witness ==
  /\ charged # {}
  /\ refused \ DOMAIN created_tx_list # {}
  /\ \E row \in CreateRecords : IsOk(Call(row))

\* C16: in every reachable state, and in the state any further record leaves,
\* the exported total of every account equals its exported available plus
\* held, which are the account's balances.
C16_TotalIsAvailablePlusHeld ==
  /\ \A r \in Export(accounts) :
       /\ r.available = accounts[r.client].available
       /\ r.held = accounts[r.client].held
       /\ r.total = r.available + r.held
  /\ \A row \in Records :
       \A r \in Export(Call(row).accounts) : r.total = r.available + r.held

\* C16 witness: an exported account with held funds and a negative available
\* balance, next to rejected records.
C16_Witness ==
  /\ \E r \in Export(accounts) : r.held > 0 /\ r.available < 0 /\ r.total > 0
  /\ refused # {}

\* C17: validation of a Deposit or Withdrawal record answers, in this order,
\* DuplicateTransaction when the id is registered (whatever the amount),
\* AmountRequired when the amount is absent, NegativeAmount when it is below
\* zero, and otherwise yields the creation command; zero is accepted.  A
\* failed validation is the result of the call.
C17_CreateValidationOrder ==
  \A row \in CreateRecords :
    LET cmd == parse_command(created_tx_list, row.tx, row.kind, row.amount)
        action == IF row.kind = "Deposit" THEN "Deposit" ELSE "Withdraw"
    IN /\ IF Registered(row.tx)
          THEN cmd = Err(AccountCommandError("DuplicateTransaction", action))
          ELSE IF row.amount = None
          THEN cmd = Err(AccountCommandError("AmountRequired", action))
          ELSE IF row.amount[1] < 0
          THEN cmd = Err(AccountCommandError("NegativeAmount", action))
          ELSE /\ cmd.ok
               /\ cmd.val.type = "CreateTx"
               /\ cmd.val.command = EntryOf(row)
       /\ IF cmd.ok THEN Call(row).result.type # "CommandErr"
                    ELSE Call(row).result = cmd.err

\* C17 witness: one id is registered and another is vacant; a Deposit of zero
\* on the vacant id is accepted and a record without amount on the registered
\* id is a duplicate.
C17_Witness ==
  \E t1 \in DOMAIN created_tx_list, t2 \in TxIds \ DOMAIN created_tx_list,
     c \in ClientIds :
    /\ IsOk(Call(Transaction("Deposit", c, t2, Some(0))))
    /\ Call(Transaction("Withdrawal", c, t2, Some(-1))).result.kind
         = "NegativeAmount"
    /\ Call(Transaction("Deposit", c, t1, None)).result.kind
         = "DuplicateTransaction"

\* C18: a Dispute of a registered deposit that is not under dispute on an
\* unlocked account is accepted whatever the available balance is, also when
\* available < amount; and a record leaves an account with available < 0
\* that was not below zero before only if it is an accepted Dispute of that
\* account's client.
C18_DisputeIgnoresBalance ==
  /\ \A c \in ClientIds, t \in TxIds, a \in ModifyAmounts :
       (/\ Registered(t)
        /\ created_tx_list[t].action = "Deposit"
        /\ ~AccountOf(c).locked
        /\ t \notin AccountOf(c).txs_under_dispute) =>
         LET out == Call(Transaction("Dispute", c, t, a)) IN
         /\ IsOk(out)
         /\ out.accounts[c].available
              = AccountOf(c).available - created_tx_list[t].amount
  /\ \A row \in Records :
       LET out == Call(row) IN
       \A c \in DOMAIN out.accounts :
         (out.accounts[c].available < 0 /\ AccountOf(c).available >= 0) =>
           /\ row.kind = "Dispute"
           /\ row.client = c
           /\ IsOk(out)

\* C18 witness: an account whose available balance is below zero while its
\* own deposit is under dispute (the deposited funds were withdrawn before).
C18_Witness ==
  \E c \in DOMAIN accounts :
    /\ accounts[c].available < 0
    /\ \E t \in accounts[c].txs_under_dispute : creator[t] = c
    /\ \E t \in DOMAIN creator :
         creator[t] = c /\ created_tx_list[t].action = "Withdraw"

\* the amount an accepted record moves: its own for a creation, the
\* registry's for a modification
MovedAmount(row) ==
  IF row.kind \in CreateKinds THEN row.amount[1]
  ELSE created_tx_list[row.tx].amount

\* C19: every accepted record changes the account of its client exactly as
\* the apply table says, and Deposit, Withdrawal, Dispute and Resolve leave
\* it unlocked.
C19_ApplyTable ==
  \A row \in Records :
    LET out == Call(row) IN
    IsOk(out) =>
      LET old == AccountOf(row.client)
          new == out.accounts[row.client]
          amt == MovedAmount(row)
      IN /\ new.available =
              CASE row.kind \in {"Deposit", "Resolve"} -> old.available + amt
                [] row.kind \in {"Withdrawal", "Dispute"} -> old.available - amt
                [] row.kind = "Chargeback" -> old.available
         /\ new.held =
              CASE row.kind \in CreateKinds -> old.held
                [] row.kind = "Dispute" -> old.held + amt
                [] row.kind \in {"Resolve", "Chargeback"} -> old.held - amt
         /\ new.txs_under_dispute =
              CASE row.kind \in CreateKinds -> old.txs_under_dispute
                [] row.kind = "Dispute" -> old.txs_under_dispute \cup {row.tx}
                [] row.kind \in {"Resolve", "Chargeback"} ->
                     old.txs_under_dispute \ {row.tx}
         /\ new.locked = (row.kind = "Chargeback")

\* C19 witness: an account with a funded transaction under dispute, for which
\* a Resolve, a Chargeback, a Deposit and a Withdrawal are accepted.
C19_Witness ==
  \E c \in DOMAIN accounts, t \in TxIds :
    /\ t \in accounts[c].txs_under_dispute
    /\ created_tx_list[t].amount > 0
    /\ accounts[c].held > 0
    /\ IsOk(Call(Transaction("Chargeback", c, t, None)))
    /\ IsOk(Call(Transaction("Resolve", c, t, None)))
    /\ \E t2 \in TxIds :
         /\ IsOk(Call(Transaction("Deposit", c, t2, Some(1))))
         /\ IsOk(Call(Transaction("Withdrawal", c, t2, Some(0))))

\* C20: an accepted Dispute of t followed at once by a Resolve of t of the
\* same client has the Resolve accepted and the account back in the state it
\* had before the Dispute (available, held, locked, dispute-set); every
\* accepted Dispute and every accepted Resolve leaves total unchanged.
C20_ResolveReversesDispute ==
  /\ \A c \in ClientIds, t \in TxIds, a \in ModifyAmounts :
       LET d == Call(Transaction("Dispute", c, t, a)) IN
       IsOk(d) =>
         LET r == CallIn(d, Transaction("Resolve", c, t, a)) IN
         /\ IsOk(r)
         /\ r.accounts[c] = AccountOf(c)
         /\ total_amount(d.accounts[c]) = total_amount(AccountOf(c))
         /\ total_amount(r.accounts[c]) = total_amount(d.accounts[c])
  /\ \A row \in ModifyRecords :
       (row.kind = "Resolve" /\ IsOk(Call(row))) =>
         total_amount(Call(row).accounts[row.client])
           = total_amount(AccountOf(row.client))

\* C20 witness: an account that holds one transaction under dispute and
\* accepts the Dispute of another, funded deposit.
C20_Witness ==
  \E c \in DOMAIN accounts, t \in DOMAIN created_tx_list :
    /\ accounts[c].held > 0
    /\ t \notin accounts[c].txs_under_dispute
    /\ created_tx_list[t].amount > 0
    /\ IsOk(Call(Transaction("Dispute", c, t, None)))

\* C21: accounts are independent: whatever record of a client c is processed,
\* accepted or rejected, and whichever client created the transaction it
\* names, every account of another client keeps its available, held, locked
\* and dispute-set, and no account of another client appears or disappears.
C21_AccountsIndependent ==
  \A row \in Records :
    LET out == Call(row) IN
    /\ \A c \in DOMAIN accounts \ {row.client} :
         /\ c \in DOMAIN out.accounts
         /\ out.accounts[c].available = accounts[c].available
         /\ out.accounts[c].held = accounts[c].held
         /\ out.accounts[c].locked = accounts[c].locked
         /\ out.accounts[c].txs_under_dispute = accounts[c].txs_under_dispute
    /\ DOMAIN out.accounts \subseteq DOMAIN accounts \cup {row.client}

\* C21 witness: two accounts, one with funds held for its own deposit; the
\* other client's Dispute of that same deposit is accepted, and a Withdrawal
\* of the other client is rejected by its account.
C21_Witness ==
  \E c1 \in DOMAIN accounts, c2 \in DOMAIN accounts, t \in DOMAIN creator :
    /\ c1 # c2
    /\ creator[t] = c1
    /\ accounts[c1].held > 0
    /\ t \in accounts[c1].txs_under_dispute
    /\ IsOk(Call(Transaction("Dispute", c2, t, None)))
    /\ \E row \in CreateRecords :
         row.client = c2 /\ Call(row).result.type = "AccountErr"

\* C22: command validation runs before the account is located: a record that
\* fails command validation is rejected with its CommandError (AmountRequired,
\* NegativeAmount, DuplicateTransaction or ExistingTxRequired) whether the
\* client's account is absent, unlocked or locked and whatever its balances
\* are; no account is created for a client that had none, and nothing else
\* changes either.  A record that passes validation never gets a CommandError.
C22_ValidationBeforeAccount ==
  \A row \in Records :
    LET out == Call(row) IN
    IF ValidationError(row) # ""
    THEN /\ out.result.type = "CommandErr"
         /\ out.result.kind = ValidationError(row)
         /\ out.result.kind \in {"AmountRequired", "NegativeAmount",
                                 "DuplicateTransaction", "ExistingTxRequired"}
         /\ DOMAIN out.accounts = DOMAIN accounts
         /\ out.accounts = accounts
         /\ out.created_tx_list = created_tx_list
    ELSE out.result.type # "CommandErr"

\* C22 witness: a locked account whose client's records fail each of the four
\* ways, next to a client without account whose record fails validation.
C22_Witness ==
  /\ \E c \in DOMAIN accounts :
       /\ accounts[c].locked
       /\ \A k \in {"AmountRequired", "NegativeAmount",
                    "DuplicateTransaction", "ExistingTxRequired"} :
            \E row \in Records : row.client = c /\ Call(row).result.kind = k
  /\ \E row \in Records :
       /\ row.client \notin DOMAIN accounts
       /\ Call(row).result.type = "CommandErr"
       /\ row.client \notin DOMAIN Call(row).accounts

\* the sum of the registry amounts of the transaction ids in txs
RECURSIVE RegistrySum(_)
RegistrySum(txs) ==
  IF txs = {} THEN 0
  ELSE LET t == CHOOSE x \in txs : TRUE
       IN created_tx_list[t].amount + RegistrySum(txs \ {t})

\* C23: in every reachable state every transaction id of an account's
\* dispute-set is registered and the account's held balance equals the sum of
\* the registry amounts of these ids; hence held is never negative and is zero
\* whenever the dispute-set is empty.
C23_HeldIsSumOfDisputed ==
  \A c \in DOMAIN accounts :
    /\ accounts[c].txs_under_dispute \subseteq DOMAIN created_tx_list
    /\ accounts[c].held = RegistrySum(accounts[c].txs_under_dispute)
    /\ accounts[c].held >= 0
    /\ accounts[c].txs_under_dispute = {} => accounts[c].held = 0

\* C23 witness: one account holds two deposits of different amounts under
\* dispute, another was locked by a chargeback of a funded deposit and holds
\* nothing.
C23_Witness ==
  /\ \E c \in DOMAIN accounts :
       /\ Cardinality(accounts[c].txs_under_dispute) = 2
       /\ accounts[c].held = 1 + MaxAmount
  /\ \E c \in DOMAIN accounts :
       /\ accounts[c].locked
       /\ accounts[c].txs_under_dispute = {}
       /\ accounts[c].available < 0

\* C24: in every reachable state every unlocked account has
\* total = available + held >= 0, that is available >= -held; an account with
\* a negative total is locked and was locked by an accepted Chargeback of its
\* client.  No record takes an unlocked account to a negative total without
\* locking it.
C24_UnlockedTotalNonNegative ==
  /\ \A c \in DOMAIN accounts :
       /\ ~accounts[c].locked =>
            /\ total_amount(accounts[c]) >= 0
            /\ accounts[c].available >= 0 - accounts[c].held
       /\ total_amount(accounts[c]) < 0 =>
            accounts[c].locked /\ c \in frozen
       /\ accounts[c].locked <=> c \in frozen
  /\ \A row \in Records :
       LET out == Call(row) IN
       \A c \in DOMAIN out.accounts :
         total_amount(out.accounts[c]) < 0 => out.accounts[c].locked

\* C24 witness: an unlocked account whose available balance is below zero and
\* whose total is zero, next to a locked account with a negative total.
C24_Witness ==
  /\ \E c \in DOMAIN accounts :
       /\ ~accounts[c].locked
       /\ accounts[c].available < 0
       /\ total_amount(accounts[c]) = 0
  /\ \E c \in DOMAIN accounts :
       /\ accounts[c].locked
       /\ total_amount(accounts[c]) < 0

\* C25: a Deposit or Withdrawal rejected by the account (InsufficientFunds or
\* AccountFrozen) does not consume its transaction id: the id is vacant in the
\* registry the call leaves, a following Dispute, Resolve or Chargeback naming
\* it fails ExistingTxRequired, and a following Deposit reusing it, of any
\* client, is never a duplicate and is accepted unless that client's account
\* is locked; accepted, it registers the id.  The same holds at any later
\* time for the id of a rejected creation that no accepted creation used.
C25_RejectedCreationKeepsIdVacant ==
  /\ \A row \in CreateRecords :
       LET out == Call(row) IN
       out.result.type = "AccountErr" =>
         /\ out.result.kind \in {"InsufficientFunds", "AccountFrozen"}
         /\ out.created_tx_list = created_tx_list
         /\ row.tx \notin DOMAIN out.created_tx_list
         /\ \A m \in ModifyRecords :
              m.tx = row.tx =>
                CallIn(out, m).result
                  = AccountCommandError("ExistingTxRequired", m.kind)
         /\ \A c \in ClientIds, a \in 0..MaxAmount :
              LET again == CallIn(out, Transaction("Deposit", c, row.tx, Some(a)))
                  isLocked == c \in DOMAIN out.accounts /\ out.accounts[c].locked
              IN /\ again.result.type # "CommandErr"
                 /\ IsOk(again) <=> ~isLocked
                 /\ IsOk(again) =>
                      /\ row.tx \in DOMAIN again.created_tx_list
                      /\ again.created_tx_list[row.tx].amount = a
  /\ \A t \in refused \ DOMAIN creator :
       /\ t \notin DOMAIN created_tx_list
       /\ \A m \in ModifyRecords :
            m.tx = t => Call(m).result.kind = "ExistingTxRequired"
       /\ \A c \in ClientIds :
            Call(Transaction("Deposit", c, t, Some(1))).result.kind
              # "DuplicateTransaction"

\* C25 witness: on a vacant id a Deposit of a locked client is refused with
\* AccountFrozen and a Withdrawal of another client with InsufficientFunds;
\* after either, a Deposit of the other client with the same id is accepted.
C25_Witness ==
  \E c1 \in DOMAIN accounts, c2 \in ClientIds, t \in TxIds :
    /\ c1 # c2
    /\ t \in refused
    /\ LET frz == Call(Transaction("Deposit", c1, t, Some(1)))
           funds == Call(Transaction("Withdrawal", c2, t, Some(1)))
       IN /\ frz.result.kind = "AccountFrozen"
          /\ funds.result.kind = "InsufficientFunds"
          /\ IsOk(CallIn(frz, Transaction("Deposit", c2, t, Some(1))))
          /\ IsOk(CallIn(funds, Transaction("Deposit", c2, t, Some(1))))

====
